---- MODULE Spec2Model ----
(***************************************************************************)
(* Model of the chess-bot Discord bot: the starboard reaction handler      *)
(* (events/reaction_add.rs, driven by the event loop of main.rs) and the   *)
(* RSS announcement poll loop (both the loop inlined in main.rs and its    *)
(* extraction handle_announcements in rss_announcements.rs).               *)
(***************************************************************************)
EXTENDS Integers, Sequences, FiniteSets, TLC

\* ------------------------------------------------------------------ bounds
MaxEvents == 3      \* reaction events the gateway delivers
NumMsgs == 2        \* distinct source messages
MaxCount == 2       \* largest per-emoji reaction count in a snapshot
MaxEmoji == 2       \* emoji kinds on one message
MaxThreshold == 2   \* largest configured REACTION_REQUIREMENT
MaxTime == 3        \* largest timestamp (wall clock and feed times)
MaxEntries == 2     \* entries in one feed document

None == -1

VARIABLES
    \* configuration (ApplicationConfig)
    reaction_requirement, server_id, announcement_urls,
    \* event loop of main and the spawned handler tasks
    mainPc, dispatched, tasks, handled, qualified,
    \* sqlite tables
    starboard, announcement_feed,
    \* the starboard channel as the Discord API holds it
    creates, updates, nextMessageId,
    \* the poll task
    impl, pollPc, feedIdx, clock, rssPosted, lastPoll, reported

starVars == <<reaction_requirement, server_id, mainPc, dispatched, tasks,
              handled, qualified, starboard, creates, updates, nextMessageId>>
rssVars == <<announcement_urls, announcement_feed, impl, pollPc, feedIdx,
             clock, rssPosted, lastPoll, reported>>
vars == <<starVars, rssVars>>

\* ------------------------------------------------------------ value sets
Msgs == 1..NumMsgs
Guilds == {1, 2}
TaskIds == 1..MaxEvents
Counts == 1..MaxCount

\* message.reactions: one count per emoji, in the order Discord lists them
Snapshots == UNION {[1..n -> Counts] : n \in 0..MaxEmoji}

Max2(a, b) == IF a > b THEN a ELSE b

\* message.reactions.iter().map(|r| r.count).max().unwrap_or_default()
RECURSIVE MaxReactions_Sum(_)
MaxReactions_Sum(snap) ==
    IF snap = <<>> THEN 0
    ELSE Head(snap) + MaxReactions_Sum(Tail(snap))
RECURSIVE MaxReactions(_)
MaxReactions(snap) ==
    IF snap = <<>> THEN 0
    ELSE Max2(Head(snap), MaxReactions(Tail(snap)))

\* index of the reaction create_starboard_message renders: reduce keeps the
\* current maximum unless a later count is strictly larger; 0 stands for the
\* expect() panic on an empty list
RECURSIVE ReduceMax(_, _, _)
ReduceMax(snap, i, cur) ==
    IF i > Len(snap) THEN cur
    ELSE ReduceMax(snap, i + 1, IF snap[i] > snap[cur] THEN i ELSE cur)

create_starboard_message_LastEmoji(snap) == Len(snap)
create_starboard_message(snap) ==
    IF snap = <<>> THEN 0 ELSE ReduceMax(snap, 2, 1)

\* config.server_id.map(|id| Some(id) == added.guild_id).unwrap_or(true)
Tracked_NoGuildAccepted(guild) ==
    IF server_id = None THEN TRUE ELSE guild = None \/ guild = server_id
Tracked(guild) ==
    IF server_id = None THEN TRUE ELSE guild = server_id

\* max_reactions < config.reaction_requirement
BelowRequirement(max) == max < reaction_requirement

\* SELECT starboard_id FROM starboard WHERE message_id = ?  (fetch_optional)
SelectStarboard_ByPostId(m) == {r[2] : r \in {x \in starboard : x[2] = m}}
SelectStarboard(m) == {r[2] : r \in {x \in starboard : x[1] = m}}

IdleTask == [pc |-> "idle", msg |-> None, guild |-> None, found |-> None,
             snap |-> <<>>, max |-> None, did |-> "none", target |-> None,
             rendered |-> None, rejected |-> "no", pollEnded |-> FALSE,
     result |-> "none"]

JoinedTask == [IdleTask EXCEPT !.pc = "joined"]

\* tokio::spawn(handle_event(..)).await: the loop waits for the JoinHandle of
\* the task it spawned before it asks the gateway for the next event
JoinAwaited_Detached == TRUE
JoinAwaited == \A t \in TaskIds : tasks[t].pc \in {"idle", "joined"}

\* a finished handler that fetched max_reactions >= reaction_requirement and
\* met no failing I/O call
Qualifies(task) ==
    /\ task.result \in {"Ok", "panic"}
    /\ task.max # None
    /\ task.max >= reaction_requirement

\* ------------------------------------------------------------ event loop
\* let _: JoinHandle<_> = tokio::spawn(..): main drops the handle of the poll
\* task and never awaits it, so the task's end is not seen by main
PollTaskDetached_Awaited == FALSE
PollTaskDetached == TRUE

\* events.next().await yields a ReactionAdd; the loop spawns its handler.
\* pollEnded records whether the poll task had ended when the event arrived
Dispatch(m, g) ==
    /\ mainPc = "running"
    /\ dispatched < MaxEvents
    /\ JoinAwaited
    /\ PollTaskDetached \/ pollPc # "ended"
    /\ dispatched' = dispatched + 1
    /\ tasks' = [tasks EXCEPT ![dispatched + 1] =
                    [IdleTask EXCEPT !.pc = "start", !.msg = m, !.guild = g,
                                     !.pollEnded = (pollPc = "ended")]]
    /\ handled' = [handled EXCEPT ![m] = @ + 1]
    /\ UNCHANGED <<reaction_requirement, server_id, mainPc, qualified, starboard,
                   creates, updates, nextMessageId, rssVars>>

\* the JoinHandle resolves: Ok(Ok(())) loops, anything else returns from main
\* (a panic of the task is a JoinError); the task's value is dropped
Join(t) ==
    /\ mainPc = "running"
    /\ tasks[t].pc = "done"
    /\ mainPc' = IF tasks[t].result = "Ok" THEN "running" ELSE "exited"
    /\ tasks' = [tasks EXCEPT ![t] = JoinedTask]
    /\ qualified' = IF Qualifies(tasks[t])
                    THEN [qualified EXCEPT ![tasks[t].msg] = @ + 1]
                    ELSE qualified
    /\ UNCHANGED <<reaction_requirement, server_id, dispatched, handled, starboard,
                   creates, updates, nextMessageId, rssVars>>

\* ---------------------------------------------------------- reaction_add
\* `?` or `return Ok(())`: the handler returns, it has no retry loop
Finish_Retry(t, res) == [tasks EXCEPT ![t].pc = "start", ![t].result = res]
Finish(t, res) == [tasks EXCEPT ![t].pc = "done", ![t].result = res]

\* the row of the INSERT: starboard_message.id of the message create_message
\* returned, and the source message's id
StarboardRow_OtherId(task) == <<task.msg, task.target + 1>>
StarboardRow(task) == <<task.msg, task.target>>

\* guild filter, pool.acquire() and the SELECT on starboard
Lookup(t) ==
    /\ mainPc # "exited"
    /\ tasks[t].pc = "start"
    /\ IF ~Tracked(tasks[t].guild)
       THEN tasks' = Finish(t, "Ok")
       ELSE \E io \in {"ok", "DatabaseConnect", "PreviousReactionCount"} :
              IF io # "ok"
              THEN tasks' = Finish(t, io)
              ELSE \E id \in (IF SelectStarboard(tasks[t].msg) = {}
                              THEN {None} ELSE SelectStarboard(tasks[t].msg)) :
                      tasks' = [tasks EXCEPT ![t].pc = "looked", ![t].found = id]
    /\ UNCHANGED <<reaction_requirement, server_id, mainPc, dispatched, handled,
                   qualified, starboard,
                   creates, updates, nextMessageId, rssVars>>

\* http.message(..), max_reactions, and the choice of path; the call of
\* create_starboard_message panics on a message with no reactions, otherwise
\* it yields the emoji (its index in the snapshot) the summary line renders
Fetch(t) ==
    /\ mainPc # "exited"
    /\ tasks[t].pc = "looked"
    /\ \E io \in {"ok", "RetrieveMessage"} :
         IF io # "ok"
         THEN tasks' = Finish(t, io)
         ELSE \E snap \in Snapshots :
                LET seen == [tasks EXCEPT ![t].snap = snap,
                                          ![t].max = MaxReactions(snap)]
                    called == [seen EXCEPT
                                 ![t].rendered = create_starboard_message(snap)]
                IN
                IF tasks[t].found # None
                THEN IF create_starboard_message(snap) = 0
                     THEN tasks' = [called EXCEPT ![t].pc = "done",
                                                  ![t].result = "panic"]
                     ELSE tasks' = [called EXCEPT ![t].pc = "update"]
                ELSE IF BelowRequirement(MaxReactions(snap))
                     THEN tasks' = [seen EXCEPT ![t].pc = "done", ![t].result = "Ok"]
                     ELSE IF create_starboard_message(snap) = 0
                          THEN tasks' = [called EXCEPT ![t].pc = "done",
                                                       ![t].result = "panic"]
                          ELSE tasks' = [called EXCEPT ![t].pc = "create"]
    /\ UNCHANGED <<reaction_requirement, server_id, mainPc, dispatched, handled,
                   qualified, starboard,
                   creates, updates, nextMessageId, rssVars>>

\* how a create_message or update_message request can be turned down:
\* .content(..) finds the content too long, .embeds(..) finds the embed
\* invalid, or the request itself fails when awaited
Rejections == {"content_too_long", "embeds_invalid", "request_failed"}

\* .content(..).change_context(ContentResponseTooLong)?
\* .embeds(..).change_context(StarboardMessage)? .await.change_context(StarboardMessage)?
SendError_Undistinguished(rejection) == "StarboardMessage"
SendError(rejection) ==
    IF rejection = "content_too_long" THEN "ContentResponseTooLong"
    ELSE "StarboardMessage"

\* http.update_message(starboard_channel_id, starboard_message_id)
Update(t) ==
    /\ mainPc # "exited"
    /\ tasks[t].pc = "update"
    /\ \E io \in {"ok"} \cup Rejections :
         IF io = "ok"
         THEN /\ updates' = [updates EXCEPT ![tasks[t].msg] = @ + 1]
              /\ tasks' = [tasks EXCEPT ![t].pc = "done", ![t].result = "Ok",
                                        ![t].did = "update",
                                        ![t].target = tasks[t].found]
         ELSE /\ tasks' = [Finish(t, SendError(io)) EXCEPT ![t].rejected = io]
              /\ UNCHANGED updates
    /\ UNCHANGED <<reaction_requirement, server_id, mainPc, dispatched, handled,
                   qualified, starboard,
                   creates, nextMessageId, rssVars>>

\* http.create_message(starboard_channel_id) .. .model()
Create(t) ==
    /\ mainPc # "exited"
    /\ tasks[t].pc = "create"
    /\ \E io \in {"ok"} \cup Rejections :
         IF io = "ok"
         THEN /\ creates' = [creates EXCEPT ![tasks[t].msg] = @ + 1]
              /\ nextMessageId' = nextMessageId + 1
              /\ tasks' = [tasks EXCEPT ![t].pc = "insert", ![t].did = "create",
                                        ![t].target = nextMessageId]
         ELSE /\ tasks' = [Finish(t, SendError(io)) EXCEPT ![t].rejected = io]
              /\ UNCHANGED <<creates, nextMessageId>>
    /\ UNCHANGED <<reaction_requirement, server_id, mainPc, dispatched, handled,
                   qualified, starboard,
                   updates, rssVars>>

\* INSERT INTO starboard (starboard_id, message_id) VALUES (?, ?)
Insert(t) ==
    /\ mainPc # "exited"
    /\ tasks[t].pc = "insert"
    /\ \E io \in {"ok", "PreviousReactionCount"} :
         IF io = "ok"
         THEN /\ starboard' = starboard \cup {StarboardRow(tasks[t])}
              /\ tasks' = Finish(t, "Ok")
         ELSE /\ tasks' = Finish(t, io)
              /\ UNCHANGED starboard
    /\ UNCHANGED <<reaction_requirement, server_id, mainPc, dispatched, handled,
                   qualified, creates,
                   updates, nextMessageId, rssVars>>

NextStar ==
    \/ \E m \in Msgs, g \in Guilds \cup {None} : Dispatch(m, g)
    \/ \E t \in TaskIds : Join(t)
    \/ \E t \in TaskIds : Lookup(t)
    \/ \E t \in TaskIds : Fetch(t)
    \/ \E t \in TaskIds : Update(t)
    \/ \E t \in TaskIds : Create(t)
    \/ \E t \in TaskIds : Insert(t)

\* ------------------------------------------------------------ poll task
Unread == None - 1
Regressed == None - 2
Untracked == None - 3
NoFeed == [id |-> None, updated |-> None, entries |-> <<>>]

FeedIds == {1, 2}
Times == 1..MaxTime
OptTimes == Times \cup {None}

\* what feed_rs parses out of a fetched document: the feed's id and updated
\* time and its entries (entry k has id k) with their own updated times
Feeds(u) == {[id |-> u, updated |-> up, entries |-> es] :
                up \in OptTimes,
                es \in UNION {[1..n -> OptTimes] : n \in 0..MaxEntries}}

\* if date > database_updated_time
IsNew_Inclusive(date, database_updated_time) == date >= database_updated_time
IsNew(date, database_updated_time) == date > database_updated_time

\* feed.entries.into_iter().filter_map(..): the indices of the entries that
\* have an updated time later than database_updated_time, in feed order
RECURSIVE NewEntriesFrom(_, _, _)
NewEntriesFrom(entries, i, database_updated_time) ==
    IF i > Len(entries) THEN <<>>
    ELSE (IF entries[i] # None /\ IsNew(entries[i], database_updated_time)
          THEN <<i>> ELSE <<>>)
         \o NewEntriesFrom(entries, i + 1, database_updated_time)

new_entries(entries, database_updated_time) ==
    NewEntriesFrom(entries, 1, database_updated_time)

\* if database_updated_time == updated_time { continue; }
AlreadyProcessed_Never(database_updated_time, updated_time) == FALSE
AlreadyProcessed(database_updated_time, updated_time) ==
    database_updated_time = updated_time

\* let current_time = Utc::now().timestamp_millis()
current_time(feed) == clock

\* the first-encounter branch ends in `continue`: nothing is posted
FirstEncounterEntries_Flood(feed) ==
    SelectSeq([k \in 1..Len(feed.entries) |-> k], LAMBDA k : feed.entries[k] # None)
FirstEncounterEntries(feed) == <<>>

\* a fetch or read error of one feed: handle_announcements logs it and moves to
\* the next feed, the loop inlined in main returns it with `?`
FetchErrorEndsTask == impl = "main"

\* a feed without an updated time: main skips it with `continue`,
\* handle_announcements returns RssError::Read with `?`
NoUpdatedEndsTask == impl = "handle_announcements"

\* the posts of entries `sent` of `feed` as the channel of tuple i receives
\* them: configured tuple, entry id, the entry's updated time
PostsOf(i, feed, sent) ==
    {<<i, sent[k], feed.entries[sent[k]]>> : k \in 1..Len(sent)}

\* no feed handled yet in this sweep
NoPoll == [tuple |-> 0, outcome |-> "none", prev |-> Unread, feed |-> NoFeed,
           posts |-> <<>>, wrote |-> None, again |-> {}]

\* the value of lastPoll in a specification that keeps no record of the passes
Unobserved == [NoPoll EXCEPT !.outcome = "unobserved"]

\* what the latest pass of the loop body in the current sweep did: the tuple,
\* how it ended, the watermark it read and wrote, the feed it fetched, the
\* entries it posted and which of those posts the channel had received before
Poll(i, outcome, prev, feed, posts, wrote) ==
    IF lastPoll = Unobserved THEN Unobserved
    ELSE [tuple |-> i, outcome |-> outcome, prev |-> prev, feed |-> feed,
          posts |-> posts, wrote |-> wrote,
          again |-> PostsOf(i, feed, posts) \cap rssPosted]

\* the updated times the feed documents fetched so far carried, per feed id:
\* the latest one while they never went down, Regressed once one was earlier
\* than the one before it; a specification that starts a feed Untracked keeps
\* no such history for it
Observe(feed) ==
    IF feed = NoFeed \/ feed.updated = None THEN reported
    ELSE LET last == reported[feed.id] IN
         [reported EXCEPT ![feed.id] =
             IF last = Untracked THEN Untracked
             ELSE IF last = Regressed \/ (last # None /\ feed.updated < last)
             THEN Regressed ELSE feed.updated]

\* `continue`, or the end of the loop body: on to the next configured feed
NextFeed(rec) ==
    /\ feedIdx' = feedIdx + 1
    /\ lastPoll' = rec
    /\ reported' = Observe(rec.feed)
    /\ UNCHANGED <<pollPc>>

\* the task returns Err: the loop is over
EndTask_Continue(rec) == NextFeed(rec)
EndTask(rec) ==
    /\ pollPc' = "ended"
    /\ lastPoll' = rec
    /\ reported' = Observe(rec.feed)
    /\ UNCHANGED <<feedIdx>>

\* the one poll task, spawned before the event loop, runs until its body
\* returns; nothing spawns another
PollTaskAlive_Respawned == TRUE
PollTaskAlive == pollPc = "running"

\* client.create_message(channel) for each of the entries `sent` of `feed`.
\* rssPosted remembers one post the channels received, picked arbitrarily among
\* all posts made so far, for comparison with the posts of later polls
PostAll(i, feed, sent) ==
    IF rssPosted = {}
    THEN \E keep \in {{}} \cup {{p} : p \in PostsOf(i, feed, sent)} : rssPosted' = keep
    ELSE UNCHANGED rssPosted

\* one pass of the loop body over a fetched feed that has an updated time:
\* the watermark read, its INSERT or UPDATE, the filter and the posts
CheckFeed(i, feed) ==
    LET database_updated_time == announcement_feed[feed.id] IN
    \E io \in {"ok", "select_fails", "write_fails"} :
        IF io = "select_fails"
        THEN /\ EndTask(Poll(i, "Database", Unread, feed, <<>>, None))
             /\ UNCHANGED <<announcement_feed, rssPosted>>
        ELSE IF io = "write_fails"
        THEN /\ EndTask(Poll(i, "Database", database_updated_time, feed, <<>>, None))
             /\ UNCHANGED <<announcement_feed, rssPosted>>
        ELSE
          /\ announcement_feed' =
                [announcement_feed EXCEPT ![feed.id] = current_time(feed)]
          /\ IF database_updated_time = None
             THEN /\ PostAll(i, feed, FirstEncounterEntries(feed))
                  /\ NextFeed(Poll(i, "first", None, feed,
                                   FirstEncounterEntries(feed), current_time(feed)))
             ELSE IF AlreadyProcessed(database_updated_time, feed.updated)
             THEN /\ NextFeed(Poll(i, "unchanged", database_updated_time, feed,
                                   <<>>, current_time(feed)))
                  /\ UNCHANGED rssPosted
             ELSE LET q == new_entries(feed.entries, database_updated_time) IN
                  \E n \in 0..Len(q) :
                    LET sent == SubSeq(q, 1, n) IN
                    /\ PostAll(i, feed, sent)
                    /\ IF n = Len(q)
                       THEN NextFeed(Poll(i, "posted", database_updated_time, feed,
                                          sent, current_time(feed)))
                       ELSE EndTask(Poll(i, "Post", database_updated_time, feed,
                                         sent, current_time(feed)))

\* the body of `for (url, channel, ..) in announcement_urls.iter()`
PollFeed(i) ==
    /\ mainPc # "exited"
    /\ PollTaskAlive
    /\ feedIdx = i
    /\ i \in 1..Len(announcement_urls)
    /\ \/ \E err \in {"Fetch", "Read"} :
            /\ IF FetchErrorEndsTask
               THEN EndTask(Poll(i, err, Unread, NoFeed, <<>>, None))
               ELSE NextFeed(Poll(i, err, Unread, NoFeed, <<>>, None))
            /\ UNCHANGED <<announcement_feed, rssPosted>>
       \/ \E feed \in Feeds(announcement_urls[i][1]) :
            IF feed.updated = None
            THEN /\ IF NoUpdatedEndsTask
                    THEN EndTask(Poll(i, "Read", Unread, feed, <<>>, None))
                    ELSE NextFeed(Poll(i, "no_updated", Unread, feed, <<>>, None))
                 /\ UNCHANGED <<announcement_feed, rssPosted>>
            ELSE CheckFeed(i, feed)
    /\ UNCHANGED <<starVars, announcement_urls, impl, clock>>

\* tokio::time::sleep(check_interval).await, then the next sweep.  Utc::now()
\* reads the system's real-time clock, which is not monotonic: after the sleep
\* it usually reads later, but a clock step (NTP, an operator setting the time)
\* can make it read the same or earlier
Sleep ==
    /\ mainPc # "exited"
    /\ PollTaskAlive
    /\ feedIdx = Len(announcement_urls) + 1
    /\ \E now \in Times : clock' = now
    /\ feedIdx' = 1
    /\ lastPoll' = IF lastPoll = Unobserved THEN Unobserved ELSE NoPoll
    /\ UNCHANGED <<starVars, announcement_urls, announcement_feed, impl, pollPc,
                   rssPosted, reported>>

NextRss ==
    \/ \E i \in 1..2 : PollFeed(i)
    \/ Sleep

\* ------------------------------------------------------------------ init
InitStarVars ==
    /\ mainPc = "running"
    /\ dispatched = 0
    /\ tasks = [t \in TaskIds |-> IdleTask]
    /\ handled = [m \in Msgs |-> 0]
    /\ qualified = [m \in Msgs |-> 0]
    /\ starboard = {}
    /\ creates = [m \in Msgs |-> 0]
    /\ updates = [m \in Msgs |-> 0]
    /\ nextMessageId = 1

InitRssVars ==
    /\ pollPc = "running"
    /\ feedIdx = 1
    /\ rssPosted = {}
    /\ lastPoll = NoPoll

InitStar ==
    /\ reaction_requirement \in 0..MaxThreshold
    /\ server_id \in {None, 1}
    /\ announcement_urls = <<>>
    /\ announcement_feed = [f \in FeedIds |-> None]
    /\ impl = "main"
    /\ clock = 1
    /\ reported = [f \in FeedIds |-> Untracked]
    /\ InitStarVars
    /\ InitRssVars

\* two feeds routed to two channels, or one feed url routed to two channels
InitSweep ==
    /\ reaction_requirement = 1
    /\ server_id = None
    /\ announcement_urls \in {<< <<1, 1>>, <<2, 2>> >>, << <<1, 1>>, <<1, 2>> >>}
    /\ announcement_feed = [f \in FeedIds |-> None]
    /\ impl \in {"main", "handle_announcements"}
    /\ clock \in Times
    /\ reported = [f \in FeedIds |-> Untracked]
    /\ InitStarVars
    /\ InitRssVars

\* one configured feed
InitRss ==
    /\ reaction_requirement = 1
    /\ server_id = None
    /\ announcement_urls = << <<1, 1>> >>
    /\ announcement_feed = [f \in FeedIds |-> None]
    /\ impl \in {"main", "handle_announcements"}
    /\ clock \in Times
    /\ reported = [f \in FeedIds |-> None]
    /\ InitStarVars
    /\ InitRssVars

SpecStar == InitStar /\ [][NextStar]_vars
SpecRss == InitRss /\ [][NextRss]_vars
SpecSweep == InitSweep /\ [][NextRss]_vars

\* the tokio runtime keeps polling a spawned task that can make progress, and
\* main's loop resumes when the JoinHandle it awaits resolves
\* the event loop and the poll task side by side: one configured feed, every
\* guild tracked, a threshold of one reaction. The poll task has just been
\* spawned; the loop has handled all but two of the events of the run, each a
\* reaction to message 1 whose reactions had all been removed again when the
\* handler fetched it (below the threshold: Ok(()) and no write). The passes of
\* the poll task and its posts are not recorded
InitBoth ==
    /\ reaction_requirement = 1
    /\ server_id = None
    /\ announcement_urls = << <<1, 1>> >>
    /\ announcement_feed = [f \in FeedIds |-> None]
    /\ impl \in {"main", "handle_announcements"}
    /\ clock \in Times
    /\ reported = [f \in FeedIds |-> Untracked]
    /\ mainPc = "running"
    /\ dispatched = MaxEvents - 2
    /\ tasks = [t \in TaskIds |-> IF t <= MaxEvents - 2 THEN JoinedTask ELSE IdleTask]
    /\ handled = [m \in Msgs |-> IF m = 1 THEN MaxEvents - 2 ELSE 0]
    /\ qualified = [m \in Msgs |-> 0]
    /\ starboard = {}
    /\ creates = [m \in Msgs |-> 0]
    /\ updates = [m \in Msgs |-> 0]
    /\ nextMessageId = 1
    /\ pollPc = "running"
    /\ feedIdx = 1
    /\ rssPosted = {<<0, 0, 0>>}
    /\ lastPoll = Unobserved

NextBoth == NextStar \/ NextRss

SpecBoth == InitBoth /\ [][NextBoth]_vars

FairStar == SpecStar /\ WF_vars(NextStar)

\* ---------------------------------------------------------------- claims
\* a handler that has run to its end and whose result main has not joined yet
Done(t) == tasks[t].pc = "done"

\* the handler of task t fetched the message and met no failing I/O call
Fetched(t) == tasks[t].max # None /\ tasks[t].result \in {"Ok", "panic"}

\* C1: when every event dispatched for a source message has been handled, each
\* handler having fetched max_count >= threshold with no failing I/O call,
\* exactly one create and N-1 updates were issued for that message, and never
\* more than one create.
C1_OneCreateRestUpdates ==
    \A m \in Msgs :
        (handled[m] >= 1 /\ qualified[m] = handled[m])
            => creates[m] = 1 /\ updates[m] = handled[m] - 1

\* C2: the starboard table never holds two entries for one source message, and
\* an entry, once written, stays as written in every later state.
AtMostOneEntry(table) ==
    \A m \in Msgs : Cardinality({r \in table : r[1] = m}) <= 1

C2_LedgerEntryStable ==
    [][AtMostOneEntry(starboard') /\ starboard \subseteq starboard']_vars

\* an entry exists and a later event for its message was handled (an update),
\* and another handler for the same message ended in an error
C2_Witness ==
    \E m \in Msgs, t \in TaskIds :
        /\ Cardinality(SelectStarboard(m)) = 1
        /\ updates[m] >= 1
        /\ Done(t) /\ tasks[t].msg = m /\ tasks[t].result \notin {"Ok", "none"}

\* C3: with no ledger entry for the message, a handler that fetched max_count
\* below the threshold issues no create and no update and writes no entry; one
\* that fetched max_count >= threshold (the boundary included) issues a create
\* and writes the entry.
C3_ThresholdBoundary ==
    \A t \in TaskIds :
        (Done(t) /\ Fetched(t) /\ tasks[t].found = None)
            => IF tasks[t].max < reaction_requirement
               THEN tasks[t].did = "none" /\ SelectStarboard(tasks[t].msg) = {}
               ELSE /\ tasks[t].did = "create"
                    /\ <<tasks[t].msg, tasks[t].target>> \in starboard

\* C4: with a ledger entry for the message, a handler issues exactly one
\* update, against the recorded post id, and no create, whatever max_count it
\* fetched, and the ledger still holds that entry alone.
C4_UpdateWheneverEntryExists ==
    \A t \in TaskIds :
        (Done(t) /\ Fetched(t) /\ tasks[t].found # None)
            => /\ tasks[t].did = "update"
               /\ tasks[t].target = tasks[t].found
               /\ SelectStarboard(tasks[t].msg) = {tasks[t].found}

\* C5: a poll that finds no watermark row for the feed posts none of its
\* entries, and once its INSERT has gone through a row for the feed exists.
C5_FirstPollSilent ==
    lastPoll.prev = None
        => /\ lastPoll.posts = <<>>
           /\ lastPoll.outcome = "first" => announcement_feed[lastPoll.feed.id] # None

\* a first poll of a feed whose entries carry timestamps, one of them later
\* than the time of the poll
C5_Witness ==
    /\ lastPoll.outcome = "first"
    /\ Len(lastPoll.feed.entries) = MaxEntries
    /\ \A k \in 1..Len(lastPoll.feed.entries) : lastPoll.feed.entries[k] # None
    /\ \E k \in 1..Len(lastPoll.feed.entries) : lastPoll.feed.entries[k] > clock

\* C6: the watermark a poll stores is the updated time the fetched feed
\* document reports.
C6_WatermarkIsFeedTime ==
    lastPoll.wrote # None => lastPoll.wrote = lastPoll.feed.updated

\* C7: a poll that read a watermark different from the feed's updated time, and
\* whose posts all went through, posted exactly the entries whose own updated
\* time is later than the watermark it read, each once, in feed order.
C7_PostsExactlyNewEntries ==
    lastPoll.outcome = "posted"
        => LET es == lastPoll.feed.entries
               p == lastPoll.posts
           IN  /\ \A k \in 1..Len(es) :
                     (\E j \in 1..Len(p) : p[j] = k)
                         <=> (es[k] # None /\ es[k] > lastPoll.prev)
               /\ \A a, b \in 1..Len(p) : a < b => p[a] < p[b]

\* one entry later than the watermark read is posted, one not later is not
C7_Witness ==
    /\ lastPoll.outcome = "posted"
    /\ Len(lastPoll.posts) >= 1
    /\ \E k \in 1..Len(lastPoll.feed.entries) :
          /\ lastPoll.feed.entries[k] # None
          /\ lastPoll.feed.entries[k] <= lastPoll.prev

\* C8: no poll posts an entry (same id, same updated time) that an earlier
\* poll has posted to the same channel.
C8_NoEntryPostedTwice == lastPoll.again = {}

\* C9: a fetch or parse failure of one feed does not end the poll loop; the
\* sweep goes on to the next configured feed.
C9_FetchFailureIsolated ==
    (lastPoll.outcome \in {"Fetch", "Read"} /\ lastPoll.feed = NoFeed)
        => pollPc = "running"

\* C10: the stored watermark of a feed never decreases from one state to the
\* next as long as the updated times its documents reported never went down,
\* and the watermark a poll reads is the value the table held, which
\* is the value the previous poll of that feed wrote.
C10_WatermarkMonotone ==
    [][/\ \A f \in FeedIds :
             (reported'[f] \notin {Regressed, Untracked} /\ announcement_feed[f] # None)
                 => announcement_feed'[f] >= announcement_feed[f]
       /\ (lastPoll' # lastPoll /\ lastPoll'.prev # Unread)
             => lastPoll'.prev = announcement_feed[lastPoll'.feed.id]
       /\ (lastPoll' # lastPoll /\ lastPoll'.wrote # None)
             => announcement_feed'[lastPoll'.feed.id] = lastPoll'.wrote]_vars

\* the errors reaction_add returns: a failed ledger call, a failed message
\* fetch, content too long, another rejection by the Discord API
ReactionError == {"DatabaseConnect", "PreviousReactionCount", "RetrieveMessage",
                  "ContentResponseTooLong", "StarboardMessage"}

\* C11: when the handler of one reaction event has returned an error, the
\* event loop goes on: joining that handler leaves the loop running, ready to
\* dispatch the events that follow.
C11_FailureKeepsLoopRunning ==
    [][\A t \in TaskIds :
          (Done(t) /\ tasks[t].result \in ReactionError /\ tasks'[t].pc = "joined")
              => mainPc' = "running"]_vars

\* C12: the poll loop has no terminal state: whatever the latest pass over a
\* feed met, the task is still running, and at the end of a sweep it can
\* sleep and begin the next sweep.
C12_PollLoopNeverEnds ==
    /\ pollPc = "running"
    /\ feedIdx = Len(announcement_urls) + 1 => ENABLED Sleep

\* the handler of task t is between its ledger lookup and the completion of
\* its update, or of its create and ledger write
InSection(t) == tasks[t].pc \in {"looked", "update", "create", "insert"}

\* C13: never are two handlers for the same source message both inside the
\* read-decide-write section.
C13_MutualExclusionPerMessage ==
    \A t, u \in TaskIds :
        (t # u /\ InSection(t) /\ InSection(u)) => tasks[t].msg # tasks[u].msg

\* a handler is inside the section for a message that earlier events were
\* already handled for, an entry for it being in the ledger
C13_Witness ==
    \E t \in TaskIds :
        /\ InSection(t)
        /\ handled[tasks[t].msg] >= 2
        /\ SelectStarboard(tasks[t].msg) # {}

\* the handler of task t was spawned and has not returned yet
InFlight(t) == tasks[t].pc \in {"start", "looked", "update", "create", "insert"}

\* C14: handlers run in parallel with the loop: while the handler of an
\* earlier event is still in flight, the running loop can receive and
\* dispatch the next event.
C14_DispatchWhileInFlight ==
    (mainPc = "running" /\ dispatched < MaxEvents /\ \E t \in TaskIds : InFlight(t))
        => ENABLED (\E m \in Msgs, g \in Guilds \cup {None} : Dispatch(m, g))

\* C15: a ledger entry is written only by a handler whose create has gone
\* through before, and it carries the source message of that handler and the
\* post id that create returned, an id no other entry holds; a handler whose
\* create fails returns with no entry written for its message.
C15_CreateThenLedgerWrite ==
    [][/\ \A r \in starboard' \ starboard :
             \E t \in TaskIds :
                /\ tasks[t].pc = "insert"
                /\ tasks[t].did = "create"
                /\ creates[tasks[t].msg] >= 1
                /\ tasks[t].target \in 1..(nextMessageId - 1)
                /\ r = <<tasks[t].msg, tasks[t].target>>
                /\ \A x \in starboard : x[2] # r[2]
       /\ \A t \in TaskIds :
             (tasks[t].pc = "create" /\ tasks'[t].pc = "done")
                 => /\ tasks'[t].result \in {"ContentResponseTooLong", "StarboardMessage"}
                    /\ creates' = creates
                    /\ starboard' = starboard
                    /\ SelectStarboard(tasks[t].msg) = {}]_vars

\* the handler of a second or later event finished the create path: its entry
\* with the returned post id is in the ledger
C15_Witness ==
    \E t \in TaskIds :
        /\ Done(t) /\ tasks[t].result = "Ok" /\ tasks[t].did = "create"
        /\ <<tasks[t].msg, tasks[t].target>> \in starboard
        /\ dispatched >= 2

\* C16: a handler whose ledger lookup or message fetch fails returns that
\* error at once: it has issued no create and no update, the ledger is as it
\* was, and a handler that has returned never runs again.
C16_LookupOrFetchFailureAborts ==
    [][\A t \in TaskIds :
          /\ (tasks[t].pc \in {"start", "looked"} /\ tasks'[t].result \in ReactionError)
                => /\ tasks'[t].pc = "done"
                   /\ tasks'[t].result \in {"DatabaseConnect", "PreviousReactionCount",
                                             "RetrieveMessage"}
                   /\ tasks'[t].did = "none"
                   /\ starboard' = starboard
                   /\ creates' = creates
                   /\ updates' = updates
          /\ tasks[t].pc = "done" => tasks'[t].pc \in {"done", "joined"}]_vars

\* the message fetch failed in a handler that had found a ledger entry
C16_Witness ==
    \E t \in TaskIds :
        /\ Done(t)
        /\ tasks[t].result = "RetrieveMessage"
        /\ tasks[t].found # None
        /\ tasks[t].did = "none"

\* C17: with a guild configured, the handler of an event from another guild,
\* or of an event with no guild id, returns Ok as its first step, with no
\* ledger lookup, no message fetch and no create or update; every other
\* event, and every event when no guild is configured, goes on to the ledger
\* lookup.
C17_GuildFilter ==
    [][\A t \in TaskIds :
          (tasks[t].pc = "start" /\ tasks'[t] # tasks[t])
              => IF server_id # None /\ tasks[t].guild # server_id
                 THEN /\ tasks'[t] = [tasks[t] EXCEPT !.pc = "done", !.result = "Ok"]
                      /\ starboard' = starboard
                      /\ creates' = creates
                      /\ updates' = updates
                 ELSE \/ tasks'[t].pc = "looked"
                      \/ tasks'[t].result \in {"DatabaseConnect",
                                               "PreviousReactionCount"}]_vars

\* with guild 1 configured, an event without a guild id was discarded although
\* its message has a ledger entry, which an update would have followed
C17_Witness ==
    \E t \in TaskIds :
        /\ server_id = 1
        /\ Done(t) /\ tasks[t].result = "Ok"
        /\ tasks[t].guild = None
        /\ tasks[t].max = None
        /\ SelectStarboard(tasks[t].msg) # {}

\* C18: a poll that read a watermark equal to the updated time of the fetched
\* feed, and whose UPDATE did not fail, posted no entry whatever the entries'
\* timestamps, and its watermark write is in the table.
C18_UnchangedFeedSilent ==
    (/\ lastPoll.prev \in Times
     /\ lastPoll.feed.updated = lastPoll.prev
     /\ lastPoll.outcome # "Database")
        => /\ lastPoll.outcome = "unchanged"
           /\ lastPoll.posts = <<>>
           /\ lastPoll.wrote # None
           /\ announcement_feed[lastPoll.feed.id] = lastPoll.wrote

\* the feed's updated time equals the watermark read, one of its entries is
\* later than that watermark, and the write changed the stored value
C18_Witness ==
    /\ lastPoll.outcome = "unchanged"
    /\ \E k \in 1..Len(lastPoll.feed.entries) :
          /\ lastPoll.feed.entries[k] # None
          /\ lastPoll.feed.entries[k] > lastPoll.prev
    /\ lastPoll.wrote # lastPoll.prev

\* C19: a pass that fetched a feed document without an updated time read and
\* wrote no watermark and posted nothing, and the poll task is still running,
\* on its way to the next configured feed.
C19_NoUpdatedTimeSkipsFeed ==
    (lastPoll.feed # NoFeed /\ lastPoll.feed.updated = None)
        => /\ lastPoll.prev = Unread
           /\ lastPoll.wrote = None
           /\ lastPoll.posts = <<>>
           /\ pollPc = "running"

C21_ContentTooLongIsDistinct ==
    \A t \in TaskIds :
        (Done(t) /\ tasks[t].rejected # "no")
            => /\ tasks[t].result = "ContentResponseTooLong"
                     <=> tasks[t].rejected = "content_too_long"
               /\ tasks[t].result \in ReactionError
               /\ tasks[t].found = None => SelectStarboard(tasks[t].msg) = {}

\* the content was too long on the update path
C21_Witness ==
    \E t \in TaskIds :
        /\ Done(t)
        /\ tasks[t].rejected = "content_too_long"
        /\ tasks[t].found # None
        /\ tasks[t].result = "ContentResponseTooLong"

\* the sum of the counts of a snapshot
RECURSIVE SumOfCounts(_)
SumOfCounts(snap) ==
    IF snap = <<>> THEN 0 ELSE Head(snap) + SumOfCounts(Tail(snap))

C23_RendersFirstLargestEmoji ==
    \A t \in TaskIds :
        tasks[t].rendered \notin {None, 0}
            => LET snap == tasks[t].snap
                   r == tasks[t].rendered
               IN  /\ r \in 1..Len(snap)
                   /\ snap[r] = tasks[t].max
                   /\ \A j \in 1..Len(snap) : snap[j] <= snap[r]
                   /\ \A j \in 1..(r - 1) : snap[j] < snap[r]

\* a post was created or updated for a snapshot in which two emoji share the
\* largest count
C23_Witness ==
    \E t \in TaskIds :
        /\ Done(t) /\ tasks[t].result = "Ok"
        /\ tasks[t].did \in {"create", "update"}
        /\ tasks[t].rendered = 1
        /\ \E j \in 2..Len(tasks[t].snap) : tasks[t].snap[j] = tasks[t].snap[1]

\* C24: a step that writes a feed watermark is a pass of the one running poll
\* task and leaves the event loop, the handlers and the starboard ledger as they
\* were; a step that writes a starboard row is the INSERT of a reaction handler
\* and leaves the watermarks and the poll task as they were; no step of a
\* handler or of the loop touches the poll task's state, and no step of the
\* poll task touches the handlers'.
C24_WatermarkAndLedgerWriters ==
    [][/\ announcement_feed' # announcement_feed
            => /\ pollPc = "running"
               /\ feedIdx \in 1..Len(announcement_urls)
               /\ feedIdx' = feedIdx + 1 \/ pollPc' = "ended"
               /\ UNCHANGED starVars
       /\ starboard' # starboard
            => /\ \E t \in TaskIds :
                    /\ tasks[t].pc = "insert"
                    /\ tasks'[t].pc = "done"
                    /\ starboard' = starboard \cup {<<tasks[t].msg, tasks[t].target>>}
               /\ UNCHANGED rssVars
       /\ (tasks' # tasks \/ mainPc' # mainPc \/ dispatched' # dispatched)
            => UNCHANGED rssVars
       /\ (pollPc' # pollPc \/ feedIdx' # feedIdx \/ clock' # clock)
            => UNCHANGED starVars]_vars

\* both kinds of row have been written: the poll task stored a watermark and a
\* handler stored a ledger entry
C24_Witness ==
    /\ \E f \in FeedIds : announcement_feed[f] # None
    /\ \E t \in TaskIds : Done(t) /\ tasks[t].did = "create" /\ StarboardRow(tasks[t]) \in starboard

\* C25: create_starboard_message is never called with a message that has no
\* reactions: no handler ends in the panic of its expect.
C25_NeverCalledWithoutReactions ==
    \A t \in TaskIds : tasks[t].rendered # 0 /\ tasks[t].result # "panic"

\* C26: once a handler that created an aggregate post has finished, with or
\* without an error, the ledger holds the entry pointing to that post.
C26_CreatedPostHasLedgerEntry ==
    \A t \in TaskIds :
        (Done(t) /\ tasks[t].did = "create")
            => <<tasks[t].msg, tasks[t].target>> \in starboard

\* C27: when two configured tuples yield the same document in one sweep, the
\* second tuple posts to its channel the entries the first tuple posted to
\* its own.
C27_TuplesIndependent ==
    [][(/\ lastPoll.tuple = 1
        /\ lastPoll.outcome = "posted"
        /\ lastPoll'.tuple = 2
        /\ lastPoll'.feed = lastPoll.feed
        /\ lastPoll'.outcome \notin {"Database", "Post"})
           => lastPoll'.posts = lastPoll.posts]_vars

\* C28: the step that ends the poll task leaves the event loop and every
\* handler as they were, and once the poll task has ended the loop can still
\* take the next event, every handler in flight can still take its next step
\* and every finished handler can still be joined.
C28_PollTaskEndLeavesLoopRunning ==
    /\ [][(pollPc = "running" /\ pollPc' = "ended") => UNCHANGED starVars]_vars
    /\ [](pollPc = "ended" =>
            /\ (mainPc = "running" /\ dispatched < MaxEvents /\ JoinAwaited)
                  => ENABLED (\E m \in Msgs, g \in Guilds \cup {None} : Dispatch(m, g))
            /\ \A t \in TaskIds :
                  /\ tasks[t].pc \notin {"idle", "done", "joined"}
                        => ENABLED (Lookup(t) \/ Fetch(t) \/ Update(t) \/ Create(t) \/ Insert(t))
                  /\ (Done(t) /\ mainPc = "running") => ENABLED Join(t))

\* an event that arrived after the poll task had ended was handled to the end:
\* its handler created the aggregate post and stored the ledger entry
C28_Witness ==
    /\ pollPc = "ended"
    /\ mainPc = "running"
    /\ \E t \in TaskIds :
          /\ tasks[t].pollEnded
          /\ Done(t)
          /\ tasks[t].result = "Ok"
          /\ tasks[t].did = "create"
          /\ StarboardRow(tasks[t]) \in starboard

\* C29: every dispatched handler eventually terminates, and a handler that
\* terminates having met no failing I/O call and having fetched max_count >=
\* threshold leaves a ledger entry for its message, which stays (C2), so that
\* later events for the message find it.
C29_QualifyingHandlerLeavesEntry ==
    /\ \A t \in TaskIds :
          (tasks[t].pc = "start") ~> (tasks[t].pc \in {"done", "joined"})
    /\ [](\A t \in TaskIds :
            (Done(t) /\ Fetched(t) /\ tasks[t].max >= reaction_requirement)
                => SelectStarboard(tasks[t].msg) # {})
====
